---------------------------- MODULE Spec2Model ----------------------------
(***************************************************************************)
(* A model of the Bitfinex exchange adapter (src/src/exchange/bitfinex.cpp) *)
(*                                                                         *)
(* Text is a sequence of symbols: a symbol is one character ("{", "\"",    *)
(* a digit, ...) or an indivisible run of letters ("request", "trading"). *)
(* Amounts, prices and volumes (C++ doubles) are integers counting tenths: *)
(* the double 2.5 is 25.  Decimal text carries at most one fraction digit. *)
(***************************************************************************)
EXTENDS Integers, Sequences, FiniteSets, TLC

VARIABLES
  tv,               \* the wall clock gettimeofday reads: [sec, usec]
  orderBookFactor,  \* params.orderBookFactor, in tenths
  posted,           \* nonces of the last two POSTs handed to Transport, in order
  heldId,           \* caller side: identifier the last sendOrder returned
  heldLacked,       \* caller side: that sendOrder's response had no "order_id"
  last,             \* the last adapter call: operation, inputs, outcome
  pc,               \* concurrent callers: position of each thread in authRequest
  tnonce            \* concurrent callers: the nonce each thread computed

vars == <<tv, orderBookFactor, posted, heldId, heldLacked,
          last, pc, tnonce>>

-----------------------------------------------------------------------------
(* Bounds *)

MaxBal == 2        \* entries of a balance list
MaxLevels == 3     \* levels of one side of the order book

Time(sec, usec) == [sec |-> sec, usec |-> usec]
Times == {Time(0, 0), Time(0, 500), Time(1, 0)}
Factors == {10, 20}
Threads == {"t1", "t2"}

-----------------------------------------------------------------------------
(* Text and numbers *)

Q == "\""
DigitChars == <<"0", "1", "2", "3", "4", "5", "6", "7", "8", "9">>
IsDigit(c) == \E i \in 1..10 : DigitChars[i] = c
DigitVal(c) == (CHOOSE i \in 1..10 : DigitChars[i] = c) - 1

RECURSIVE NatText(_)
NatText(n) ==
  IF n < 10 THEN <<DigitChars[n + 1]>>
  ELSE NatText(n \div 10) \o <<DigitChars[(n % 10) + 1]>>

\* std::to_string of an integer
to_string(n) == IF n < 0 THEN <<"-">> \o NatText(-n) ELSE NatText(n)

\* operator<< of a double (values below 10^6 with one fraction digit at most)
StreamDouble(x) ==
  LET mag == IF x < 0 THEN -x ELSE x
      sign == IF x < 0 THEN <<"-">> ELSE <<>>
      frac == mag % 10
  IN sign \o NatText(mag \div 10) \o
     (IF frac = 0 THEN <<>> ELSE <<".", DigitChars[frac + 1]>>)

RECURSIVE SkipSpace(_, _)
SkipSpace(s, i) ==
  IF i <= Len(s) /\ s[i] = " " THEN SkipSpace(s, i + 1) ELSE i

RECURSIVE ScanDigits(_, _, _, _)
ScanDigits(s, i, acc, n) ==
  IF i <= Len(s) /\ IsDigit(s[i])
  THEN ScanDigits(s, i + 1, acc * 10 + DigitVal(s[i]), n + 1)
  ELSE [pos |-> i, val |-> acc, n |-> n]

\* strtod: the longest decimal prefix; conv is FALSE when nothing converts
strtod(s) ==
  LET i0 == SkipSpace(s, 1)
      signed == i0 <= Len(s) /\ s[i0] \in {"-", "+"}
      neg == i0 <= Len(s) /\ s[i0] = "-"
      ip == ScanDigits(s, IF signed THEN i0 + 1 ELSE i0, 0, 0)
      dot == ip.pos <= Len(s) /\ s[ip.pos] = "."
      fp == IF dot THEN ScanDigits(s, ip.pos + 1, 0, 0)
            ELSE [pos |-> ip.pos, val |-> 0, n |-> 0]
      fd == IF fp.n > 0 THEN DigitVal(s[ip.pos + 1]) ELSE 0
      mag == ip.val * 10 + fd
      conv == ip.n + fp.n > 0
  IN [conv |-> conv, val |-> IF ~conv THEN 0 ELSE IF neg THEN -mag ELSE mag]

fabs(x) == IF x < 0 THEN -x ELSE x

-----------------------------------------------------------------------------
(* JSON documents (jansson) *)

Leaf(t, s, n) == [t |-> t, s |-> s, n |-> n]
Absent == Leaf("absent", <<>>, 0)     \* the key is missing: a NULL json_t*
JNull == Leaf("null", <<>>, 0)
JTrue == Leaf("true", <<>>, 0)
JFalse == Leaf("false", <<>>, 0)
JStr(s) == Leaf("str", s, 0)
JInt(n) == Leaf("int", <<>>, n)

TopKeys == {"bid", "ask", "order_id", "is_live", "message"}
EntryKeys == {"type", "currency", "amount", "price"}
NoFields == [k \in TopKeys |-> Absent]

\* an element of an array: an object with the fields given
Entry(type, currency, amount, price) ==
  [k \in EntryKeys |->
     CASE k = "type" -> type [] k = "currency" -> currency
       [] k = "amount" -> amount [] k = "price" -> price]

ObjDoc(m) == [t |-> "obj", m |-> m, bids |-> <<>>, asks |-> <<>>, items |-> <<>>]
ArrDoc(items) ==
  [t |-> "arr", m |-> NoFields, bids |-> <<>>, asks |-> <<>>, items |-> items]
BookDoc(bids, asks) ==
  [t |-> "obj", m |-> NoFields, bids |-> bids, asks |-> asks, items |-> <<>>]
NoDoc == ObjDoc(NoFields)

json_object_get(root, key) == IF root.t = "obj" THEN root.m[key] ELSE Absent
json_array_size(root) == IF root.t = "arr" THEN Len(root.items) ELSE 0
\* json_string_value: NULL unless the value is a string
json_string_value(v) ==
  IF v.t = "str" THEN [null |-> FALSE, s |-> v.s] ELSE [null |-> TRUE, s |-> <<>>]
json_integer_value_minus(v) == IF v.t = "int" THEN v.n ELSE -1
\* json_integer_value: 0 unless the value is an integer
json_integer_value(v) == IF v.t = "int" THEN v.n ELSE 0
json_is_not_true(v) == v.t # "true"
json_is_false(v) == v.t = "false"

-----------------------------------------------------------------------------
(* checkResponse and authRequest *)

ErrorLine == "Error with response"

checkResponseFilter(root) ==
  [root |-> IF json_object_get(root, "message") # Absent THEN NoDoc ELSE root,
   logs |-> IF json_object_get(root, "message") # Absent
            THEN <<ErrorLine>> ELSE <<>>]

\* logs the "message" field when there is one; returns the document it was given
checkResponse(root) ==
  [root |-> root,
   logs |-> IF json_object_get(root, "message") # Absent
            THEN <<ErrorLine>> ELSE <<>>]

\* nonce = tv_sec * 1000.0 + tv_usec * 0.001 + 0.5, truncated
Nonce(t) == t.sec * 1000 + (t.usec + 500) \div 1000

PayloadNoBranch(request, nonce, options) ==
  <<"{", Q, "request", Q, ":", Q>> \o request \o
  <<Q, ",", Q, "nonce", Q, ":", Q>> \o to_string(nonce) \o
  <<Q, ",", " ">> \o options \o <<"}">>

\* the payload text, before base64_encode
Payload(request, nonce, options) ==
  <<"{", Q, "request", Q, ":", Q>> \o request \o
  <<Q, ",", Q, "nonce", Q, ":", Q>> \o to_string(nonce) \o
  (IF options = <<>> THEN <<Q, "}">>
   ELSE <<Q, ",", " ">> \o options \o <<"}">>)

\* authRequest: what it builds from the clock reading t, and what it returns
\* for the response resp that Transport delivers
authRequest(t, request, options, resp) ==
  [nonce |-> Nonce(t),
   payload |-> Payload(request, Nonce(t), options),
   root |-> checkResponse(resp).root,
   logs |-> checkResponse(resp).logs]

-----------------------------------------------------------------------------
(* The adapter operations, as functions of the document they extract from *)

Outcome(status, num, num2, str, flag, logs) ==
  [status |-> status, num |-> num, num2 |-> num2, str |-> str, flag |-> flag,
   logs |-> logs]

\* a side of the ticker: stod throws std::invalid_argument when nothing converts
QuoteSide(root, key) ==
  LET quote == json_string_value(json_object_get(root, key))
  IN IF quote.null THEN [conv |-> TRUE, val |-> 0] ELSE strtod(quote.s)

getQuoteResult(root) ==
  LET bid == QuoteSide(root, "bid")
      ask == QuoteSide(root, "ask")
  IN IF ~bid.conv \/ ~ask.conv
     THEN Outcome("exception", 0, 0, <<>>, FALSE, <<>>)
     ELSE Outcome("ok", bid.val, ask.val, <<>>, FALSE, <<>>)

\* json_unpack_ex(..., "{s:s, s:s, s:s}", "type", "currency", "amount")
unpack_fail(e) ==
  ~(e["type"].t = "str" /\ e["currency"].t = "str" /\ e["amount"].t = "str")

\* the loop of getAvail: for (size_t i = json_array_size(root); i--;)
\* i is the number of elements not yet visited; the next one is items[i]
RECURSIVE AvailScan(_, _, _, _)
AvailScan(root, i, currency, logs) ==
  IF i = 0 THEN Outcome("ok", 0, 0, <<>>, FALSE, logs)
  ELSE LET e == root.items[i]
       IN IF unpack_fail(e)
          THEN AvailScan(root, i - 1, currency, Append(logs, "Error with JSON"))
          ELSE IF e["type"].s = <<"trading">> /\ e["currency"].s = currency
          THEN LET d == strtod(e["amount"].s)
               IN IF d.conv THEN Outcome("ok", d.val, 0, <<>>, FALSE, logs)
                  ELSE Outcome("exception", 0, 0, <<>>, FALSE, logs)
          ELSE AvailScan(root, i - 1, currency, logs)

getAvailResult(root, currency) ==
  AvailScan(root, json_array_size(root), currency, <<>>)

sendOrderOptions(direction, quantity, price) ==
  <<Q, "symbol", Q, ":", Q, "btcusd", Q, ",", " ", Q, "amount", Q, ":", Q>> \o
  StreamDouble(quantity) \o
  <<Q, ",", " ", Q, "price", Q, ":", Q>> \o StreamDouble(price) \o
  <<Q, ",", " ", Q, "exchange", Q, ":", Q, "bitfinex", Q, ",", " ",
    Q, "side", Q, ":", Q>> \o direction \o
  <<Q, ",", " ", Q, "type", Q, ":", Q, "limit", Q>>

sendOrderResult(root) ==
  Outcome("ok", 0, 0,
          to_string(json_integer_value(json_object_get(root, "order_id"))),
          FALSE, <<"Trying to send", "Done">>)

isOrderCompleteOptions(orderId) == <<Q, "order_id", Q, ":">> \o orderId

isOrderCompleteResult(root) ==
  Outcome("ok", 0, 0, <<>>, json_is_false(json_object_get(root, "is_live")), <<>>)

\* atof(json_string_value(...)): atof of NULL is undefined ("ub")
getActivePosResult(root) ==
  IF json_array_size(root) = 0
  THEN Outcome("ok", 0, 0, <<>>, FALSE, <<"WARNING: BTC position not available">>)
  ELSE LET amount == json_string_value(root.items[1]["amount"])
       IN IF amount.null THEN Outcome("ub", 0, 0, <<>>, FALSE, <<>>)
          ELSE Outcome("ok", strtod(amount.s).val, 0, <<>>, FALSE, <<>>)

ThresholdPassed(tmpVol, volume, factor) == tmpVol * 10 > fabs(volume) * factor

\* tmpVol >= fabs(volume) * params.orderBookFactor
ThresholdReached(tmpVol, volume, factor) == tmpVol * 10 >= fabs(volume) * factor

\* the loop of getLimitPrice over bidask, from level i on
RECURSIVE BookWalk(_, _, _, _, _, _, _)
BookWalk(bidask, i, tmpVol, p, volume, factor, logs) ==
  IF i > Len(bidask) THEN Outcome("ok", p, 0, <<>>, FALSE, logs)
  ELSE LET price == json_string_value(bidask[i]["price"])
           amount == json_string_value(bidask[i]["amount"])
       IN IF price.null \/ amount.null
          THEN Outcome("ub", 0, 0, <<>>, FALSE, logs)
          ELSE LET p1 == strtod(price.s).val
                   vol1 == tmpVol + strtod(amount.s).val
                   logs1 == Append(logs, "order book")
               IN IF ThresholdReached(vol1, volume, factor)
                  THEN Outcome("ok", p1, 0, <<>>, FALSE, logs1)
                  ELSE BookWalk(bidask, i + 1, vol1, p1, volume, factor, logs1)

getLimitPriceResult(root, volume, isBid, factor) ==
  BookWalk(IF isBid THEN root.bids ELSE root.asks, 1, 0, 0, volume, factor,
           <<"Looking for a limit price">>)

\* what a build can do on undefined behaviour: crash, or go on with some value
Outcomes(r) ==
  IF r.status = "ub"
  THEN {[r EXCEPT !.status = "crash"], [r EXCEPT !.status = "ok"]}
  ELSE {r}

-----------------------------------------------------------------------------
(* What the exchange may answer, and what callers may pass *)

RECURSIVE SeqsUpTo(_, _)
SeqsUpTo(S, n) ==
  IF n = 0 THEN {<<>>}
  ELSE LET shorter == SeqsUpTo(S, n - 1)
       IN shorter \cup {Append(q, x) : q \in {r \in shorter : Len(r) = n - 1}, x \in S}

BTC == <<"BTC">>
USD == <<"USD">>
Messages == {Absent, JStr(<<"Invalid", " ", "nonce">>)}

Balance(type, currency, amount) == Entry(JStr(<<type>>), JStr(currency), amount, Absent)
BalEntries ==
  { Balance("trading", BTC, JStr(<<"1", ".", "5">>)),
    Balance("trading", BTC, JStr(<<"2">>)),
    Balance("deposit", BTC, JStr(<<"3">>)) }
NoAmount == Balance("trading", BTC, Absent)
BadAmount == Balance("trading", BTC, JStr(<<"n/a">>))
BalanceResps ==
  {ArrDoc(q) : q \in SeqsUpTo(BalEntries, MaxBal)} \cup
  { ArrDoc(<<Balance("trading", BTC, JStr(<<"2">>)), NoAmount>>),
    ArrDoc(<<NoAmount>>),
    ArrDoc(<<BadAmount>>),
    ObjDoc([NoFields EXCEPT !["message"] = JStr(<<"Invalid", " ", "nonce">>)]) }
\* calls of getAvail: the balance list the exchange answers with, and the currency
AvailCalls ==
  { [resp |-> r, currency |-> BTC] : r \in BalanceResps } \cup
  { [resp |-> ArrDoc(q), currency |-> USD] :
      q \in { <<>>,
              <<Balance("trading", BTC, JStr(<<"2">>))>>,
              <<Balance("trading", USD, JStr(<<"4">>))>>,
              <<Balance("trading", USD, JStr(<<"4">>)),
                Balance("trading", BTC, JStr(<<"2">>))>>,
              <<Balance("trading", USD, JStr(<<"4">>)),
                Balance("trading", USD, JStr(<<"5">>))>> } }

Position(amount) == Entry(Absent, Absent, amount, Absent)
PositionResps ==
  { ArrDoc(<<>>),
    ArrDoc(<<Position(JStr(<<"-", "0", ".", "5">>))>>),
    ArrDoc(<<Position(JStr(<<"2">>)), Position(JStr(<<"-", "0", ".", "5">>))>>),
    ArrDoc(<<Position(JInt(2))>>),
    ArrDoc(<<Position(Absent)>>),
    ObjDoc([NoFields EXCEPT !["message"] = JStr(<<"Invalid", " ", "nonce">>)]) }

OrderResps ==
  { ObjDoc([NoFields EXCEPT !["order_id"] = id, !["message"] = msg]) :
      id \in {Absent, JInt(12), JStr(<<"1", "2">>)}, msg \in Messages }
OrderArgs ==
  { [direction |-> <<"buy">>, quantity |-> 1, price |-> 6505],
    [direction |-> <<"sell">>, quantity |-> 25, price |-> 1000] }

StatusResps ==
  { ObjDoc([NoFields EXCEPT !["is_live"] = live]) :
      live \in {JTrue, JFalse, Absent, JNull, JStr(<<"false">>), JInt(0)} } \cup
  { ObjDoc([NoFields EXCEPT !["is_live"] = live,
                            !["message"] = JStr(<<"Invalid", " ", "nonce">>)]) :
      live \in {JTrue, JFalse} }
OrderIds == {<<"0">>, <<"7">>}

TickerResps ==
  { ObjDoc([NoFields EXCEPT !["bid"] = bid, !["ask"] = ask, !["message"] = msg]) :
      bid \in {Absent, JStr(<<"6", "5", "0", ".", "5">>), JStr(<<"n/a">>), JInt(650)},
      ask \in {Absent, JStr(<<"6", "5", "1">>)},
      msg \in Messages }

Level(price, amount) == Entry(Absent, Absent, amount, price)
Levels ==
  { Level(JStr(<<"1", "0", "0">>), JStr(<<"1", ".", "0">>)),
    Level(JStr(<<"9", "9">>), JStr(<<"2", ".", "0">>)),
    Level(JStr(<<"9", "8">>), JStr(<<"5", ".", "0">>)) }
NoPrice == Level(Absent, JStr(<<"1", ".", "0">>))
Sides ==
  SeqsUpTo(Levels, MaxLevels) \cup
  { <<NoPrice>>, <<Level(JStr(<<"1", "0", "0">>), JStr(<<"1", ".", "0">>)), NoPrice>> }
Asks ==
  { <<>>,
    <<Level(JStr(<<"1", "0", "1">>), JStr(<<"4", ".", "0">>))>>,
    <<Level(JStr(<<"1", "0", "1">>), JStr(<<"4", ".", "0">>)),
      Level(JStr(<<"1", "0", "2">>), JStr(<<"6", ".", "0">>))>> }
Volumes == {25, -25, 100}
\* calls of getLimitPrice: the book the exchange answers with, volume, isBid
BookCalls ==
  { [resp |-> BookDoc(bids, <<Level(JStr(<<"1", "0", "1">>), JStr(<<"4", ".", "0">>))>>),
     volume |-> v, isBid |-> TRUE] : bids \in Sides, v \in Volumes } \cup
  { [resp |-> BookDoc(<<Level(JStr(<<"1", "0", "0">>), JStr(<<"1", ".", "0">>))>>, asks),
     volume |-> v, isBid |-> FALSE] : asks \in Asks, v \in Volumes } \cup
  { [resp |-> ObjDoc([NoFields EXCEPT !["message"] = JStr(<<"Invalid", " ", "nonce">>)]),
     volume |-> 25, isBid |-> b] : b \in BOOLEAN }

-----------------------------------------------------------------------------
(* State *)

NoArgs ==
  [id |-> <<>>, currency |-> <<>>, volume |-> 0, isBid |-> FALSE,
   direction |-> <<>>, quantity |-> 0, price |-> 0]

\* the record of a call: op with arguments args, response resp, outcome o; nonce and
\* payload are -1 and empty when no request was signed; posts and gets count the requests it handed over
Call(op, args, resp, o, nonce, payload) ==
  [op |-> op, args |-> args, resp |-> resp,
   status |-> o.status, num |-> o.num, num2 |-> o.num2, str |-> o.str,
   flag |-> o.flag, logs |-> o.logs,
   nonce |-> nonce, payload |-> payload,
   posts |-> IF nonce = -1 THEN 0 ELSE 1,
   gets |-> IF op \in {"getQuote", "getLimitPrice"} THEN 1 ELSE 0]

\* Transport takes a POST carrying nonce n
Handed(n) == IF Len(posted) = 2 THEN <<posted[2], n>> ELSE Append(posted, n)

InitCommon ==
  /\ tv = Time(0, 0)
  /\ posted = <<>>
  /\ heldId = <<"0">>
  /\ heldLacked = FALSE
  /\ last = [op |-> "none", args |-> NoArgs, resp |-> NoDoc,
             status |-> "ok", num |-> 0, num2 |-> 0, str |-> <<>>,
             flag |-> FALSE, logs |-> <<>>, nonce |-> -1, payload |-> <<>>,
             posts |-> 0, gets |-> 0]
  /\ pc = [th \in Threads |-> "idle"]
  /\ tnonce = [th \in Threads |-> 0]

Init == InitCommon /\ orderBookFactor = 10
InitPublic == InitCommon /\ orderBookFactor \in Factors

-----------------------------------------------------------------------------
(* Actions: one per adapter operation *)

\* the wall clock is set or advances (it is not monotonic)
SetClock ==
  /\ \E t \in Times \ {tv} : tv' = t
  /\ UNCHANGED <<orderBookFactor, posted, heldId, heldLacked,
                 last, pc, tnonce>>

GetQuote ==
  /\ \E resp \in TickerResps :
       last' = Call("getQuote", NoArgs, resp, getQuoteResult(resp), -1, <<>>)
  /\ UNCHANGED <<tv, orderBookFactor, posted, heldId, heldLacked,
                 pc, tnonce>>

GetLimitPrice ==
  /\ \E c \in BookCalls :
       \E o \in Outcomes(getLimitPriceResult(c.resp, c.volume, c.isBid,
                                              orderBookFactor)) :
         last' = Call("getLimitPrice",
                      [NoArgs EXCEPT !.volume = c.volume, !.isBid = c.isBid],
                      c.resp, o, -1, <<>>)
  /\ UNCHANGED <<tv, orderBookFactor, posted, heldId, heldLacked,
                 pc, tnonce>>

GetAvail ==
  /\ \E c \in AvailCalls :
       LET a == authRequest(tv, <<"/v1/balances">>, <<>>, c.resp)
           r == getAvailResult(a.root, c.currency)
       IN /\ posted' = Handed(a.nonce)
          /\ last' = Call("getAvail", [NoArgs EXCEPT !.currency = c.currency], c.resp,
                          [r EXCEPT !.logs = a.logs \o r.logs], a.nonce, a.payload)
  /\ UNCHANGED <<tv, orderBookFactor, heldId, heldLacked, pc, tnonce>>

SendOrder ==
  /\ \E resp \in OrderResps, args \in OrderArgs :
       LET a == authRequest(tv, <<"/v1/order/new">>,
                            sendOrderOptions(args.direction, args.quantity, args.price),
                            resp)
           r == sendOrderResult(a.root)
       IN /\ posted' = Handed(a.nonce)
          /\ last' = Call("sendOrder",
                          [NoArgs EXCEPT !.direction = args.direction,
                                         !.quantity = args.quantity,
                                         !.price = args.price],
                          resp,
                          [r EXCEPT !.logs = <<"Trying to send">> \o a.logs \o <<"Done">>],
                          a.nonce, a.payload)
          /\ heldId' = r.str
          /\ heldLacked' = (json_object_get(resp, "order_id") = Absent)
  /\ UNCHANGED <<tv, orderBookFactor, pc, tnonce>>

NoOrderEmpty(orderId) == orderId = <<>>

\* the early return of isOrderComplete
NoOrder(orderId) == orderId = <<"0">>

IsOrderComplete ==
  /\ \E resp \in StatusResps, orderId \in OrderIds \cup {heldId} :
       IF NoOrder(orderId)
       THEN /\ last' = Call("isOrderComplete", [NoArgs EXCEPT !.id = orderId], resp,
                            Outcome("ok", 0, 0, <<>>, TRUE, <<>>), -1, <<>>)
            /\ UNCHANGED posted
       ELSE LET a == authRequest(tv, <<"/v1/order/status">>,
                                 isOrderCompleteOptions(orderId), resp)
                r == isOrderCompleteResult(a.root)
            IN /\ posted' = Handed(a.nonce)
               /\ last' = Call("isOrderComplete", [NoArgs EXCEPT !.id = orderId],
                               resp, [r EXCEPT !.logs = a.logs \o r.logs], a.nonce, a.payload)
  /\ UNCHANGED <<tv, orderBookFactor, heldId, heldLacked, pc, tnonce>>

GetActivePos ==
  /\ \E resp \in PositionResps :
       LET a == authRequest(tv, <<"/v1/positions">>, <<>>, resp)
       IN /\ posted' = Handed(a.nonce)
          /\ \E r \in Outcomes(getActivePosResult(a.root)) :
               last' = Call("getActivePos", NoArgs, resp,
                            [r EXCEPT !.logs = a.logs \o r.logs], a.nonce, a.payload)
  /\ UNCHANGED <<tv, orderBookFactor, heldId, heldLacked, pc, tnonce>>

Next == SetClock \/ GetAvail \/ SendOrder \/ IsOrderComplete \/ GetActivePos
Spec == Init /\ [][Next]_vars

NextPublic == GetQuote \/ GetLimitPrice
SpecPublic == InitPublic /\ [][NextPublic]_vars

-----------------------------------------------------------------------------
(* Concurrent callers of authRequest: each thread reads the clock and builds *)
(* its payload, then hands the request to Transport; nothing orders the two  *)
(* steps of one thread against those of another.                             *)

Later(a, b) == a.sec < b.sec \/ (a.sec = b.sec /\ a.usec < b.usec)

\* the clock moves forward
Advance ==
  /\ \E t \in Times : Later(tv, t) /\ tv' = t
  /\ UNCHANGED <<orderBookFactor, posted, heldId, heldLacked, last, pc, tnonce>>

\* gettimeofday and the nonce computed from it
Stamp(th) ==
  /\ pc[th] = "idle"
  /\ pc' = [pc EXCEPT ![th] = "stamped"]
  /\ tnonce' = [tnonce EXCEPT ![th] = Nonce(tv)]
  /\ UNCHANGED <<tv, orderBookFactor, posted, heldId, heldLacked, last>>

\* exchange.postRequest with the headers built from that nonce
Post(th) ==
  /\ pc[th] = "stamped"
  /\ posted' = Handed(tnonce[th])
  /\ pc' = [pc EXCEPT ![th] = "idle"]
  /\ UNCHANGED <<tv, orderBookFactor, heldId, heldLacked, last, tnonce>>

NextConc == Advance \/ (\E th \in Threads : Stamp(th)) \/ (\E th \in Threads : Post(th))
SpecConc == Init /\ [][NextConc]_vars

-----------------------------------------------------------------------------
(* Reading a payload back: the JSON object a text denotes *)

Member(isStr, s) == [str |-> isStr, s |-> s]
Failed == [ok |-> FALSE, keys |-> <<>>, vals |-> <<>>]

\* the k-th smallest element of a set of numbers
Kth(S, k) == CHOOSE x \in S : Cardinality({y \in S : y < x}) = k - 1

\* position i of text s lies outside every string literal
OutsideString(s, i) == Cardinality({j \in 1..(i - 1) : s[j] = Q}) % 2 = 0

\* the first position from i on that holds no space, 0 when there is none
NonSpaceFrom(m, i) ==
  LET at == {j \in i..Len(m) : m[j] # " "}
  IN IF at = {} THEN 0 ELSE Kth(at, 1)

NumberText(t) ==
  /\ t # <<>> /\ t # <<"-">>
  /\ IsDigit(t[1]) \/ t[1] = "-"
  /\ \A i \in 2..Len(t) : IsDigit(t[i]) \/ t[i] = "."

\* one member of an object:  "key" : "text"   or   "key" : number
ParseMember(m) ==
  LET qs == {i \in 1..Len(m) : m[i] = Q}
      bad == [ok |-> FALSE, key |-> <<>>, val |-> Member(FALSE, <<>>)]
  IN IF Cardinality(qs) \notin {2, 4} \/ NonSpaceFrom(m, 1) # Kth(qs, 1) THEN bad
     ELSE LET q2 == Kth(qs, 2)
              key == SubSeq(m, Kth(qs, 1) + 1, q2 - 1)
              colon == NonSpaceFrom(m, q2 + 1)
              start == IF colon = 0 THEN 0 ELSE NonSpaceFrom(m, colon + 1)
          IN IF colon = 0 \/ start = 0 THEN bad
             ELSE IF m[colon] # ":" THEN bad
             ELSE IF Cardinality(qs) = 4
             THEN IF start = Kth(qs, 3) /\ NonSpaceFrom(m, Kth(qs, 4) + 1) = 0
                  THEN [ok |-> TRUE, key |-> key,
                        val |-> Member(TRUE, SubSeq(m, start + 1, Kth(qs, 4) - 1))]
                  ELSE bad
             ELSE LET stop == Kth({j \in start..(Len(m) + 1) :
                                     j > Len(m) \/ m[j] = " "}, 1)
                      t == SubSeq(m, start, stop - 1)
                  IN IF NumberText(t) /\ NonSpaceFrom(m, stop) = 0
                     THEN [ok |-> TRUE, key |-> key, val |-> Member(FALSE, t)]
                     ELSE bad

\* the object a text denotes: its keys and values in order, or Failed
ParseObject(s) ==
  IF Len(s) < 2 THEN Failed
  ELSE IF s[1] # "{" \/ s[Len(s)] # "}" \/ ~OutsideString(s, Len(s)) THEN Failed
  ELSE IF \E i \in 2..(Len(s) - 1) : s[i] \in {"{", "}"} /\ OutsideString(s, i)
  THEN Failed
  ELSE IF NonSpaceFrom(SubSeq(s, 2, Len(s) - 1), 1) = 0
  THEN [ok |-> TRUE, keys |-> <<>>, vals |-> <<>>]
  ELSE LET cuts == {1, Len(s)} \cup
                   {i \in 2..(Len(s) - 1) : s[i] = "," /\ OutsideString(s, i)}
           n == Cardinality(cuts) - 1
           member == [k \in 1..n |->
                        ParseMember(SubSeq(s, Kth(cuts, k) + 1, Kth(cuts, k + 1) - 1))]
       IN IF \E k \in 1..n : ~member[k].ok THEN Failed
          ELSE [ok |-> TRUE,
                keys |-> [k \in 1..n |-> member[k].key],
                vals |-> [k \in 1..n |-> member[k].val]]

-----------------------------------------------------------------------------
(* Properties *)

NonDecreasing(q) == \A i \in 1..(Len(q) - 1) : q[i] <= q[i + 1]

\* C1: across sequential authRequest calls, whatever the clock readings, each
\* nonce is greater than or equal to the nonce of the call before it.
C1_SequentialNonces == NonDecreasing(posted)

\* the running sum of the first k level volumes of a book side
RECURSIVE VolumeUpTo(_, _)
VolumeUpTo(side, k) ==
  IF k = 0 THEN 0 ELSE VolumeUpTo(side, k - 1) + strtod(side[k]["amount"].s).val

WellFormedSide(side) ==
  \A i \in 1..Len(side) : side[i]["price"].t = "str" /\ side[i]["amount"].t = "str"

DepthPrice(side, volume, factor) ==
  LET enough == {k \in 1..Len(side) : VolumeUpTo(side, k) * 10 >= fabs(volume) * factor}
      level == IF enough = {} THEN Len(side)
               ELSE CHOOSE k \in enough : \A j \in enough : k <= j
  IN IF side = <<>> THEN 0 ELSE strtod(side[level]["price"].s).val

SideRead(call) == IF call.args.isBid THEN call.resp.bids ELSE call.resp.asks

\* C2: getLimitPrice returns the price of the first level at which the running
\* sum of level volumes reaches |volume| * orderBookFactor, the price of the last
\* level when the sum never reaches it, and 0.0 for an empty side.
C2_LimitPrice ==
  (last.op = "getLimitPrice" /\ WellFormedSide(SideRead(last)))
    => /\ last.status = "ok"
       /\ last.num = DepthPrice(SideRead(last), last.args.volume, orderBookFactor)

\* the book [(100, 1.0), (99, 2.0), (98, 5.0)], volume 2.5, factor 1.0: price 99
C2_Witness ==
  /\ last.op = "getLimitPrice"
  /\ last.args.isBid
  /\ last.args.volume = 25
  /\ orderBookFactor = 10
  /\ Len(last.resp.bids) = 3
  /\ last.resp.bids[1]["price"].s = <<"1", "0", "0">>
  /\ last.resp.bids[2]["price"].s = <<"9", "9">>
  /\ last.resp.bids[3]["price"].s = <<"9", "8">>
  /\ last.num = 990

\* a step of the sequential adapter that is the call named op
CallStep(op) == tv' = tv /\ last'.op = op

\* C3: isOrderComplete("0") returns true and hands nothing to Transport: no GET,
\* no POST, no nonce and no payload, whatever the exchange would answer.
C3_NoOrderNoRequest ==
  [][(CallStep("isOrderComplete") /\ last'.args.id = <<"0">>)
       => /\ last'.flag /\ last'.status = "ok"
          /\ posted' = posted
          /\ last'.posts = 0 /\ last'.gets = 0
          /\ last'.nonce = -1 /\ last'.payload = <<>>]_vars

C3_Witness ==
  /\ last.op = "isOrderComplete" /\ last.args.id = <<"0">> /\ last.flag
  /\ last.resp.m["is_live"] = JTrue
  /\ posted # <<>>

IsMatch(e, currency) ==
  /\ e["type"] = JStr(<<"trading">>)
  /\ e["currency"] = JStr(currency)
  /\ e["amount"].t = "str"

FirstMatchAmount(items, currency) ==
  LET hits == {i \in 1..Len(items) : IsMatch(items[i], currency)}
  IN IF hits = {} THEN 0
     ELSE strtod(items[CHOOSE i \in hits : \A j \in hits : i <= j]["amount"].s).val

\* C4: getAvail returns the amount of the first entry, in response order, of
\* type "trading" and of the currency asked for, and 0.0 when there is none.
C4_FirstMatch ==
  (last.op = "getAvail" /\ last.status = "ok")
    => last.num = FirstMatchAmount(last.resp.items, last.args.currency)

NumericText(v) == v.t = "str" /\ strtod(v.s).conv

\* C5: on a response that Transport delivered, every operation completes, and a
\* field that is missing, of the wrong type or not numeric yields the default.
C5_MalformedDefaults ==
  /\ last.status = "ok"
  /\ last.op = "getQuote" =>
       /\ ~NumericText(last.resp.m["bid"]) => last.num = 0
       /\ ~NumericText(last.resp.m["ask"]) => last.num2 = 0

Str(s) == Member(TRUE, s)

RequestPath(op) ==
  CASE op = "getAvail" -> <<"/v1/balances">>
    [] op = "sendOrder" -> <<"/v1/order/new">>
    [] op = "isOrderComplete" -> <<"/v1/order/status">>
    [] op = "getActivePos" -> <<"/v1/positions">>

\* the fields the caller of authRequest supplies, in the order it gives them
Supplied(call) ==
  CASE call.op = "sendOrder" ->
         [keys |-> << <<"symbol">>, <<"amount">>, <<"price">>, <<"exchange">>,
                      <<"side">>, <<"type">> >>,
          vals |-> << Str(<<"btcusd">>), Str(StreamDouble(call.args.quantity)),
                      Str(StreamDouble(call.args.price)), Str(<<"bitfinex">>),
                      Str(call.args.direction), Str(<<"limit">>) >>]
    [] call.op = "isOrderComplete" ->
         [keys |-> << <<"order_id">> >>, vals |-> << Member(FALSE, call.args.id) >>]
    [] OTHER -> [keys |-> <<>>, vals |-> <<>>]

C6_WitnessNoFields ==
  /\ last.op = "getAvail"
  /\ ParseObject(last.payload).ok
  /\ Len(ParseObject(last.payload).keys) = 2

\* C7: for an identifier other than "0", isOrderComplete hands one signed status
\* request to Transport and returns true exactly when "is_live" is JSON false.
C7_StatusRequest ==
  [][(CallStep("isOrderComplete") /\ last'.args.id # <<"0">>)
       => /\ posted' = (IF Len(posted) = 2 THEN <<posted[2], Nonce(tv)>>
                        ELSE Append(posted, Nonce(tv)))
          /\ last'.posts = 1 /\ last'.gets = 0
          /\ SubSeq(last'.payload, 1, 8) =
               <<"{", Q, "request", Q, ":", Q, "/v1/order/status", Q>>
          /\ last'.status = "ok"
          /\ last'.flag = (last'.resp.m["is_live"] = JFalse)]_vars

C7_Witness ==
  /\ last.op = "isOrderComplete" /\ last.args.id = <<"7">>
  /\ last.resp.m["is_live"] = JFalse /\ last.flag

C7_WitnessLive ==
  /\ last.op = "isOrderComplete" /\ last.args.id = <<"7">>
  /\ last.resp.m["is_live"] = Absent /\ ~last.flag

\* C8: sendOrder returns "0" when the response carries no order identifier, and
\* isOrderComplete on that returned identifier then reports the order complete
\* without handing a status request to Transport.
C8_NoIdentifier ==
  [][/\ (CallStep("sendOrder") /\ last'.resp.m["order_id"] = Absent)
          => (last'.str = <<"0">> /\ heldId' = <<"0">> /\ heldLacked')
     /\ (CallStep("isOrderComplete") /\ heldLacked /\ last'.args.id = heldId)
          => (last'.flag /\ posted' = posted /\ last'.posts = 0)]_vars

C8_Witness ==
  /\ heldLacked
  /\ last.op = "isOrderComplete" /\ last.args.id = heldId /\ last.flag
  /\ last.resp.m["is_live"] = JTrue
  /\ Len(posted) = 1

Stripped(doc) == [doc EXCEPT !.m["message"] = Absent]

IsErrorLine(l) == l = ErrorLine
NotErrorLine(l) == l # ErrorLine

\* what the operation of a call extracts from document doc
Extracted(call, doc) ==
  CASE call.op = "getAvail" -> {getAvailResult(doc, call.args.currency)}
    [] call.op = "sendOrder" -> {sendOrderResult(doc)}
    [] call.op = "isOrderComplete" -> {isOrderCompleteResult(doc)}
    [] call.op = "getActivePos" -> Outcomes(getActivePosResult(doc))

\* C9: checkResponse passes the document through: an authenticated operation
\* returns, on a response with a message field, what it returns on the same
\* response without it, and logs one more line.
C9_PassThrough ==
  last.posts = 1 =>
    /\ \E e \in Extracted(last, Stripped(last.resp)) :
         /\ last.status = e.status
         /\ last.num = e.num /\ last.str = e.str /\ last.flag = e.flag
         /\ SelectSeq(last.logs, NotErrorLine) = e.logs
    /\ Len(SelectSeq(last.logs, IsErrorLine)) =
         (IF json_object_get(last.resp, "message") # Absent THEN 1 ELSE 0)

C9_Witness ==
  /\ last.op = "sendOrder"
  /\ last.resp.m["message"] # Absent
  /\ last.resp.m["order_id"] = JInt(12)
  /\ last.str = <<"1", "2">>
  /\ last.logs = <<"Trying to send", ErrorLine, "Done">>

\* C10: with concurrent callers, the nonces of the requests, in the order in
\* which the requests are handed to Transport, are non-decreasing.
C10_HandOverOrder ==
  \A i, j \in 1..Len(posted) : i < j => posted[i] <= posted[j]

=============================================================================
